---- MODULE Spec2Model ----
(***************************************************************************)
(* remote-dump1090: a one-directional TCP relay.  main() parses the        *)
(* command line and calls main_loop(), which connects to the destination   *)
(* and to the source with socket_connect() and then copies every chunk     *)
(* read from the source to the destination, reconnecting the side whose    *)
(* read or write failed.  The program is one sequential thread: pc is its  *)
(* position, one action per system call or handler.  The kernel, the       *)
(* resolver and the two peers are the environment.                         *)
(***************************************************************************)
EXTENDS Integers, Sequences, FiniteSets, TLC

(***************************************************************************)
(* Bounds of the model.                                                    *)
(***************************************************************************)
\* chunk capacity: -DBUFFER_SIZE of the build (1024 when not given), scaled
BUFFER_SIZE == 2
\* number of bytes the source peer delivers in a run
MaxStream == 3
\* number of failures the environment injects in a run
MaxFail == 3
\* number of arguments after argv[0] in the argument specification
MaxArgs == 4
\* size of the descriptor table (descriptors 3 .. 2 + MaxFds)
MaxFds == 3

(***************************************************************************)
(* Program constants.                                                      *)
(***************************************************************************)
DEFAULT_SRC_PORT == 30002
DEFAULT_DST_PORT == 30001
EXIT_FATAL == 1
EXIT_USAGE == 2
EXIT_OK == 0
\* what socket() returns on failure; also stands for a descriptor variable
\* that was not assigned yet
NoFd == -1

NUL == "NUL"
NULL == <<"NULL">>

VARIABLES
    argv,            \* the argument vector, argv[0] included
    pc,              \* position of the thread
    status,          \* how the process ended: [how, code]
    sigpipe,         \* disposition of SIGPIPE: "default" or "ignore"
    send_to_syslog,  \* the global of line 39
    opts,            \* main's src_host, dst_host, src_port, dst_port
    src, dst,        \* main_loop's descriptors
    buf, rv,         \* main_loop's chunk and the last read/write result
    sc,              \* the running socket_connect call: site, fd, counters
    fdtab,           \* kernel: the process's descriptor table
    net,             \* peers: bytes queued on the source connection, peer state
    delivered,       \* history: every byte the source peer sent
    accepted,        \* history: every byte the destination peer took
    nfail,           \* failures injected so far
    healthy,         \* from now on the environment injects no failure
    hist             \* history flags about the run

vars == <<argv, pc, status, sigpipe, send_to_syslog, opts, src, dst, buf, rv,
          sc, fdtab, net, delivered, accepted, nfail, healthy, hist>>

Fds == 3..(2 + MaxFds)

(***************************************************************************)
(* Pure helpers of main(): characters of an argument, strtoul.             *)
(***************************************************************************)
\* argv[i][k] of C for an argument a (a sequence of characters)
Ch(a, k) == IF k < Len(a) THEN a[k + 1] ELSE NUL

DigitVal(c) ==
    CASE c = "0" -> 0 [] c = "1" -> 1 [] c = "2" -> 2 [] c = "3" -> 3
      [] c = "4" -> 4 [] c = "5" -> 5 [] c = "6" -> 6 [] c = "7" -> 7
      [] c = "8" -> 8 [] c = "9" -> 9 [] OTHER -> -1

RECURSIVE StrToULFrom(_, _, _)
StrToULFrom(a, k, acc) ==
    IF DigitVal(Ch(a, k)) < 0 THEN acc
    ELSE StrToULFrom(a, k + 1, acc * 10 + DigitVal(Ch(a, k)))

\* strtoul(a + from, NULL, 10): the leading decimal digits, 0 when none
StrToUL(a, from) == StrToULFrom(a, from, 0)


(***************************************************************************)
(* main(), lines 198-243: the loop over the arguments.  st is main's       *)
(* locals; st.end tells how the loop was left: "loop" (i reached argc),    *)
(* "help", "version", "invalid" (goto end), or "null_s" / "null_d" when    *)
(* -s / -d is the last argument and strtoul is handed argv[argc] = NULL.   *)
(***************************************************************************)
ArgInit ==
    [src_host |-> NULL, dst_host |-> NULL,
     src_port |-> DEFAULT_SRC_PORT, dst_port |-> DEFAULT_DST_PORT,
     syslog |-> 0, rv |-> EXIT_OK, usage |-> FALSE, err |-> FALSE, end |-> "loop"]

RECURSIVE ArgLoop(_, _, _)
ArgLoop(av, i, st) ==
    IF ~(i < Len(av)) THEN st
    ELSE LET a == av[i + 1] IN
      IF Ch(a, 0) = "-" THEN
        CASE Ch(a, 1) = "h" -> [st EXCEPT !.end = "help"]
          [] Ch(a, 1) = "v" -> [st EXCEPT !.end = "version"]
          [] Ch(a, 1) = "l" -> ArgLoop(av, i + 1, [st EXCEPT !.syslog = 1])
          [] Ch(a, 1) = "s" ->
               IF Ch(a, 2) # NUL
               THEN ArgLoop(av, i + 1, [st EXCEPT !.src_port = StrToUL(a, 2)])
               ELSE IF i + 1 < Len(av)
               THEN ArgLoop(av, i + 2, [st EXCEPT !.src_port = StrToUL(av[i + 2], 0)])
               ELSE [st EXCEPT !.end = "null_s"]
          [] Ch(a, 1) = "d" ->
               IF Ch(a, 2) # NUL
               THEN ArgLoop(av, i + 1, [st EXCEPT !.dst_port = StrToUL(a, 2)])
               ELSE IF i + 1 < Len(av)
               THEN ArgLoop(av, i + 2, [st EXCEPT !.dst_port = StrToUL(av[i + 2], 0)])
               ELSE [st EXCEPT !.end = "null_d"]
          [] OTHER -> [st EXCEPT !.usage = TRUE, !.err = TRUE,
                                 !.rv = EXIT_USAGE, !.end = "invalid"]
      ELSE IF st.src_host = NULL THEN ArgLoop(av, i + 1, [st EXCEPT !.src_host = a])
      ELSE IF st.dst_host = NULL THEN ArgLoop(av, i + 1, [st EXCEPT !.dst_host = a])
      ELSE ArgLoop(av, i + 1, st)

\* faulty variant: the test of dst_host is missing
HostCheck_srcOnly(st) ==
    IF st.src_host = NULL
    THEN [st EXCEPT !.usage = TRUE, !.err = TRUE, !.rv = EXIT_USAGE, !.end = "no_src"]
    ELSE [st EXCEPT !.end = "run"]

\* lines 245-256: after the loop, the required hosts
HostCheck(st) ==
    IF st.src_host = NULL
    THEN [st EXCEPT !.usage = TRUE, !.err = TRUE, !.rv = EXIT_USAGE, !.end = "no_src"]
    ELSE IF st.dst_host = NULL
    THEN [st EXCEPT !.usage = TRUE, !.err = TRUE, !.rv = EXIT_USAGE, !.end = "no_dst"]
    ELSE [st EXCEPT !.end = "run"]

\* main() from line 198 to the call of main_loop or the return
ParseArgs(av) ==
    LET st == ArgLoop(av, 1, ArgInit)
    IN  IF st.end = "loop" THEN HostCheck(st) ELSE st


(***************************************************************************)
(* Kernel helpers.                                                         *)
(***************************************************************************)
ClosedFd == [state |-> "closed", rcvtimeo |-> FALSE, sndtimeo |-> FALSE, side |-> "none"]

FreeFds == {f \in Fds : fdtab[f].state = "closed"}

\* the lowest free descriptor, as socket() hands out
LowestFree == CHOOSE f \in FreeFds : \A g \in FreeFds : f <= g

IsOpen(f) == f \in Fds /\ fdtab[f].state # "closed"

IsConnected(f) == f \in Fds /\ fdtab[f].state = "connected"

Min(a, b) == IF a <= b THEN a ELSE b

Take(s, n) == SubSeq(s, 1, n)

Drop(s, n) == SubSeq(s, n + 1, Len(s))

\* the environment may inject one more failure
MayFail == ~healthy /\ nfail < MaxFail

Running == pc \notin {"exited", "killed"}

(***************************************************************************)
(* Init: the process was just started with some argument vector.           *)
(***************************************************************************)
Prog == <<"r">>
HostA == <<"a">>
HostB == <<"b">>

\* argument vectors of the relay specification
RelayArgvs ==
    { <<Prog, HostA, HostB>>,
      <<Prog, <<"-", "l">>, <<"-", "s", "7">>, HostA, <<"-", "d">>, <<"8">>, HostB>>,
      <<Prog, HostA, <<"-", "s">>>>,
      <<Prog, <<"-", "h">>>>,
      <<Prog, HostA>> }

NoCall == [site |-> "none", side |-> "none", fd |-> NoFd, addr |-> "none",
           sockets |-> 0, sockFails |-> 0, sleeps |-> 0,
           attempts |-> 0, refused |-> 0, returned |-> FALSE]

InitHist ==
    [errLines |-> 0, lastLog |-> "none", warnsCall |-> 0, usage |-> FALSE,
     chunkWrites |-> 0, nwrites |-> 0, interleaved |-> FALSE,
     reads |-> FALSE, writes |-> FALSE,
     srcFailed |-> FALSE, dstFailed |-> FALSE, ioFailed |-> FALSE,
     established |-> FALSE, badClose |-> FALSE, epipe |-> FALSE,
     chunkHealthy |-> FALSE, resumed |-> FALSE, lastExit |-> "none"]

InitCommon ==
    /\ pc = "m_signal"
    /\ status = [how |-> "running", code |-> 0]
    /\ sigpipe = "default"
    /\ send_to_syslog = 0
    /\ opts = [src_host |-> NULL, dst_host |-> NULL,
               src_port |-> DEFAULT_SRC_PORT, dst_port |-> DEFAULT_DST_PORT]
    /\ src = NoFd
    /\ dst = NoFd
    /\ buf = <<>>
    /\ rv = 0
    /\ sc = NoCall
    /\ fdtab = [f \in Fds |-> ClosedFd]
    /\ net = [srcQueue |-> <<>>, srcPeer |-> "none", dstPeer |-> "none"]
    /\ delivered = <<>>
    /\ accepted = <<>>
    /\ nfail = 0
    /\ healthy = FALSE
    /\ hist = InitHist

Init ==
    /\ argv \in RelayArgvs
    /\ InitCommon


(***************************************************************************)
(* xlog(), lines 42-62: one log line of the given level.                   *)
(***************************************************************************)
Xlog(h, level) ==
    [h EXCEPT !.lastLog = level,
              !.errLines = IF level = "error" THEN @ + 1 ELSE @,
              !.warnsCall = IF level = "warning" THEN @ + 1 ELSE @]

(***************************************************************************)
(* main(), line 196, and lines 198-259.                                    *)
(***************************************************************************)
\* faulty variant: the call of signal() is missing
SigpipeDisposition_default == "default"

\* line 196: signal(SIGPIPE, SIG_IGN)
SigpipeDisposition == "ignore"

\* faulty variant: the source is connected first
InitOrder_srcFirst == <<"src", "dst">>

\* lines 132-133: the order of the two initial socket_connect calls
InitOrder == <<"dst", "src">>

SideOf(site) ==
    CASE site = "init1" -> InitOrder[1]
      [] site = "init2" -> InitOrder[2]
      [] site = "re_src" -> "src"
      [] site = "re_dst" -> "dst"

\* faulty variant: the host is resolved before the socket is created
ScOrder_resolveFirst ==
    <<"sc_resolve", "sc_socket", "sc_rcvtimeo", "sc_sndtimeo", "sc_connect">>

\* faulty variant: the host is not resolved again, the address is kept
ScOrder_noResolve == <<"sc_socket", "sc_rcvtimeo", "sc_sndtimeo", "sc_connect">>

\* lines 69-125: the order of the steps of socket_connect
ScOrder == <<"sc_socket", "sc_rcvtimeo", "sc_sndtimeo", "sc_resolve", "sc_connect">>

\* the first step of a call
ScEntry == ScOrder[1]

\* the step after step p
ScAfter(p) ==
    LET i == CHOOSE k \in 1..Len(ScOrder) : ScOrder[k] = p
    IN  ScOrder[i + 1]

\* entry of socket_connect(host, port) from the given call site
Call(site) ==
    [site |-> site, side |-> SideOf(site), fd |-> NoFd, addr |-> "none",
     sockets |-> 0, sockFails |-> 0, sleeps |-> 0,
     attempts |-> 0, refused |-> 0, returned |-> FALSE]

MSignal ==
    /\ pc = "m_signal"
    /\ sigpipe' = SigpipeDisposition
    /\ pc' = "m_parse"
    /\ UNCHANGED <<argv, status, send_to_syslog, opts, src, dst, buf, rv, sc,
                   fdtab, net, delivered, accepted, nfail, healthy, hist>>

\* the locals of main after the argument loop was left with strtoul(NULL):
\* the call returned v, i is argc + 1 and the loop ends
AfterNull(st, v) ==
    HostCheck([st EXCEPT !.src_port = IF st.end = "null_s" THEN v ELSE @,
                         !.dst_port = IF st.end = "null_d" THEN v ELSE @,
                         !.end = "loop"])

\* lines 198-259 for the locals st the argument loop ended with
MainEnd(st) ==
    /\ send_to_syslog' = st.syslog
    /\ opts' = [src_host |-> st.src_host, dst_host |-> st.dst_host,
                src_port |-> st.src_port, dst_port |-> st.dst_port]
    /\ IF st.end = "run"
       THEN /\ pc' = "ml_init1"
            /\ UNCHANGED <<status, hist, sc>>
       ELSE /\ pc' = "exited"
            /\ status' = [how |-> "exit", code |-> st.rv]
            /\ hist' = [(IF st.err THEN Xlog(hist, "error") ELSE hist)
                           EXCEPT !.usage = st.usage, !.lastExit = st.end]
            /\ UNCHANGED sc

MParse ==
    /\ pc = "m_parse"
    /\ LET st == ParseArgs(argv) IN
         IF st.end \in {"null_s", "null_d"}
         THEN \* strtoul(argv[argc]) with argv[argc] = NULL: undefined
              \/ /\ pc' = "killed"
                 /\ status' = [how |-> "SIGSEGV", code |-> 0]
                 /\ send_to_syslog' = st.syslog
                 /\ UNCHANGED <<opts, sc, hist>>
              \/ \E v \in {0} : MainEnd(AfterNull(st, v))
         ELSE MainEnd(st)
    /\ UNCHANGED <<argv, sigpipe, src, dst, buf, rv, fdtab, net, delivered,
                   accepted, nfail, healthy>>


(***************************************************************************)
(* socket_connect(), lines 65-126.                                         *)
(***************************************************************************)
\* faulty variant: the error is logged and the step is tried again
Fatal_retried(why) ==
    /\ pc' = pc
    /\ status' = status
    /\ hist' = [Xlog(hist, "error") EXCEPT !.lastExit = why]

\* exit(1) after an error-level line (lines 84-86, 90-92, 97-99, 104-105)
Fatal(why) ==
    /\ pc' = "exited"
    /\ status' = [how |-> "exit", code |-> EXIT_FATAL]
    /\ hist' = [Xlog(hist, "error") EXCEPT !.lastExit = why]

\* line 77: while (fd < 0)
SocketRetry(fd) == fd < 0

\* lines 69-77: socket(), retried after a warning and a sleep
ScSocket ==
    /\ pc = "sc_socket"
    /\ \/ /\ FreeFds # {}
          /\ LET f == LowestFree IN
               /\ fdtab' = [fdtab EXCEPT ![f] =
                    [state |-> "created", rcvtimeo |-> FALSE,
                     sndtimeo |-> FALSE, side |-> sc.side]]
               /\ sc' = [sc EXCEPT !.fd = f, !.sockets = @ + 1]
               /\ pc' = IF SocketRetry(f) THEN "sc_socket" ELSE ScAfter("sc_socket")
          /\ UNCHANGED <<nfail, hist>>
       \/ /\ MayFail \/ FreeFds = {}
          /\ sc' = [sc EXCEPT !.fd = NoFd, !.sockFails = @ + 1, !.sleeps = @ + 1]
          /\ hist' = Xlog(hist, "warning")
          /\ nfail' = IF FreeFds = {} THEN nfail ELSE nfail + 1
          /\ pc' = IF SocketRetry(NoFd) THEN "sc_socket" ELSE ScAfter("sc_socket")
          /\ UNCHANGED fdtab
    /\ UNCHANGED <<argv, status, sigpipe, send_to_syslog, opts, src, dst, buf,
                   rv, net, delivered, accepted, healthy>>

\* setsockopt() on a descriptor: fails with EBADF when it is not open
SetsockoptOk(f) == IsOpen(f)

\* lines 82-87: SO_RCVTIMEO
ScRcvTimeo ==
    /\ pc = "sc_rcvtimeo"
    /\ \/ /\ SetsockoptOk(sc.fd)
          /\ fdtab' = [fdtab EXCEPT ![sc.fd].rcvtimeo = TRUE]
          /\ pc' = ScAfter("sc_rcvtimeo")
          /\ UNCHANGED <<status, hist, nfail>>
       \/ /\ MayFail \/ ~SetsockoptOk(sc.fd)
          /\ Fatal("rcvtimeo")
          /\ nfail' = IF SetsockoptOk(sc.fd) THEN nfail + 1 ELSE nfail
          /\ UNCHANGED fdtab
    /\ UNCHANGED <<argv, sigpipe, send_to_syslog, opts, src, dst, buf, rv, sc,
                   net, delivered, accepted, healthy>>

\* lines 88-93: SO_SNDTIMEO
ScSndTimeo ==
    /\ pc = "sc_sndtimeo"
    /\ \/ /\ SetsockoptOk(sc.fd)
          /\ fdtab' = [fdtab EXCEPT ![sc.fd].sndtimeo = TRUE]
          /\ pc' = ScAfter("sc_sndtimeo")
          /\ UNCHANGED <<status, hist, nfail>>
       \/ /\ MayFail \/ ~SetsockoptOk(sc.fd)
          /\ Fatal("sndtimeo")
          /\ nfail' = IF SetsockoptOk(sc.fd) THEN nfail + 1 ELSE nfail
          /\ UNCHANGED fdtab
    /\ UNCHANGED <<argv, sigpipe, send_to_syslog, opts, src, dst, buf, rv, sc,
                   net, delivered, accepted, healthy>>

\* what gethostbyname2 can answer: NULL, or a list of IPv4 addresses
DnsFailures == {NULL, <<>>}
DnsAnswers == {<<"a1">>, <<"a2", "a1">>}

\* lines 95-114: resolve the host, take the first address
ScResolve ==
    /\ pc = "sc_resolve"
    /\ \/ \E h \in DnsAnswers :
            /\ sc' = [sc EXCEPT !.addr = h[1]]
            /\ hist' = IF Len(h) > 1 THEN Xlog(hist, "warning") ELSE hist
            /\ pc' = ScAfter("sc_resolve")
            /\ UNCHANGED <<status, nfail>>
       \/ \E h \in DnsFailures :
            /\ MayFail
            /\ Fatal(IF h = NULL THEN "dns_null" ELSE "dns_empty")
            /\ nfail' = nfail + 1
            /\ UNCHANGED sc
    /\ UNCHANGED <<argv, sigpipe, send_to_syslog, opts, src, dst, buf, rv,
                   fdtab, net, delivered, accepted, healthy>>

\* faulty variant: the connect loop is left after the first attempt
ConnectRetry_never(r) == FALSE

\* line 124: while (rv < 0)
ConnectRetry(r) == r < 0

\* faulty variant: the continue is missing, the write follows the reconnect
AfterSrcReconnect_write == "ml_write"

\* line 141: continue, after the source was reconnected
AfterSrcReconnect == "ml_read"

\* faulty variant: a failed connect goes back to the creation of the socket
ConnectRetryPc_socket == "sc_socket"

\* line 116: do, the head of the connect loop
ConnectRetryPc == "sc_connect"

\* faulty variant: the write is tried again after the destination reconnect
ReturnPc_rewrite(site) ==
    CASE site = "init1" -> "ml_init2"
      [] site = "init2" -> "ml_read"
      [] site = "re_src" -> "ml_read"
      [] site = "re_dst" -> "ml_write"

\* where socket_connect returns to (lines 132, 133, 140-141, 146-148)
ReturnPc(site) ==
    CASE site = "init1" -> "ml_init2"
      [] site = "init2" -> "ml_read"
      [] site = "re_src" -> AfterSrcReconnect
      [] site = "re_dst" -> "ml_read"

\* lines 116-125: connect(), retried on the same socket after a warning and
\* a sleep; then return fd, which the caller assigns to src or dst
ScConnect ==
    /\ pc = "sc_connect"
    /\ \E r \in {0, -1} :
         /\ r < 0 => MayFail
         /\ nfail' = IF r < 0 THEN nfail + 1 ELSE nfail
         /\ fdtab' = IF r = 0 /\ IsOpen(sc.fd)
                     THEN [fdtab EXCEPT ![sc.fd].state = "connected"]
                     ELSE fdtab
         /\ net' = IF r = 0 /\ sc.side = "src"
                   THEN [net EXCEPT !.srcQueue = <<>>, !.srcPeer = "up"]
                   ELSE IF r = 0 THEN [net EXCEPT !.dstPeer = "up"]
                   ELSE net
         /\ LET h == IF r < 0 THEN Xlog(hist, "warning") ELSE hist
                done == [sc EXCEPT !.attempts = @ + 1,
                                   !.refused = IF r < 0 THEN @ + 1 ELSE @,
                                   !.sleeps = IF r < 0 THEN @ + 1 ELSE @]
            IN IF ConnectRetry(r)
               THEN /\ sc' = done
                    /\ hist' = h
                    /\ pc' = ConnectRetryPc
                    /\ UNCHANGED <<src, dst>>
               ELSE /\ pc' = ReturnPc(sc.site)
                    /\ src' = IF sc.side = "src" THEN sc.fd ELSE src
                    /\ dst' = IF sc.side = "dst" THEN sc.fd ELSE dst
                    /\ sc' = [done EXCEPT !.returned = TRUE]
                    /\ hist' = [h EXCEPT
                         !.established = @ \/ sc.site = "init2",
                         !.dstFailed = IF sc.side = "dst" THEN FALSE ELSE @]
    /\ UNCHANGED <<argv, status, sigpipe, send_to_syslog, opts, buf, rv,
                   delivered, accepted, healthy>>


(***************************************************************************)
(* main_loop(), lines 129-153.                                             *)
(***************************************************************************)
\* line 132: int dst = socket_connect(dst_host, dst_port), the call
MlInit1 ==
    /\ pc = "ml_init1"
    /\ sc' = Call("init1")
    /\ pc' = ScEntry
    /\ hist' = [hist EXCEPT !.warnsCall = 0]
    /\ UNCHANGED <<argv, status, sigpipe, send_to_syslog, opts, src, dst, buf,
                   rv, fdtab, net, delivered, accepted, nfail, healthy>>

\* line 133: int src = socket_connect(src_host, src_port), the call
MlInit2 ==
    /\ pc = "ml_init2"
    /\ sc' = Call("init2")
    /\ pc' = ScEntry
    /\ hist' = [hist EXCEPT !.warnsCall = 0]
    /\ UNCHANGED <<argv, status, sigpipe, send_to_syslog, opts, src, dst, buf,
                   rv, fdtab, net, delivered, accepted, nfail, healthy>>

\* faulty variant: only a negative result counts as a failed read
ReadFailed_negative(r) == r < 0

\* line 138: if (rv <= 0) after read
ReadFailed(r) == r <= 0

\* line 144: if (rv <= 0) after write
WriteFailed(r) == r <= 0

\* faulty variant: the destination is closed and reconnected when the read failed
ReadFailSide_dst == "dst"

\* lines 139-140: the descriptor closed and reconnected when the read failed
ReadFailSide == "src"

\* faulty variant: the source is closed and reconnected when the write failed
WriteFailSide_src == "src"

\* lines 145-146: the descriptor closed and reconnected when the write failed
WriteFailSide == "dst"

\* lines 137-138: read(src, buf, BUFFER_SIZE) and the test of its result.
\* The read gives n bytes of the queued data, 0 once the peer has closed and
\* the queue is drained, -1 on an error, a timeout or a bad descriptor.
MlRead ==
    /\ pc = "ml_read"
    /\ \/ /\ IsConnected(src) /\ fdtab[src].side = "src"
          /\ \E n \in 1..Min(BUFFER_SIZE, Len(net.srcQueue)) :
               /\ buf' = Take(net.srcQueue, n)
               /\ rv' = n
               /\ net' = [net EXCEPT !.srcQueue = Drop(@, n)]
               /\ pc' = IF ReadFailed(n) THEN "ml_close_src" ELSE "ml_write"
               /\ hist' = [hist EXCEPT !.reads = TRUE,
                              !.srcFailed = IF n > 0 THEN FALSE ELSE @,
                              !.chunkHealthy = healthy,
                              !.chunkWrites = 0]
          /\ UNCHANGED nfail
       \/ /\ IsConnected(src) /\ fdtab[src].side = "src"
          /\ net.srcQueue = <<>> /\ net.srcPeer = "closed"
          /\ rv' = 0
          /\ pc' = IF ReadFailed(0) THEN "ml_close_src" ELSE "ml_write"
          /\ hist' = [hist EXCEPT !.reads = TRUE, !.srcFailed = TRUE,
                                  !.ioFailed = TRUE]
          /\ UNCHANGED <<buf, net, nfail>>
       \/ /\ MayFail \/ ~IsConnected(src)
          /\ rv' = -1
          /\ pc' = IF ReadFailed(-1) THEN "ml_close_src" ELSE "ml_write"
          /\ hist' = [hist EXCEPT !.reads = TRUE, !.srcFailed = TRUE,
                                  !.ioFailed = TRUE]
          /\ nfail' = IF IsConnected(src) THEN nfail + 1 ELSE nfail
          /\ UNCHANGED <<buf, net>>
    /\ UNCHANGED <<argv, status, sigpipe, send_to_syslog, opts, src, dst, sc,
                   fdtab, delivered, accepted, healthy>>

\* faulty variant: the close is missing
CloseFd_missing(tab, f) == tab

\* close(f): the descriptor leaves the table; data queued on it is lost
CloseFd(tab, f) == IF f \in Fds THEN [tab EXCEPT ![f] = ClosedFd] ELSE tab

NetAfterClose(f) ==
    IF ~IsOpen(f) THEN net
    ELSE IF fdtab[f].side = "src" /\ fdtab[f].state = "connected"
    THEN [net EXCEPT !.srcQueue = <<>>, !.srcPeer = "none"]
    ELSE IF fdtab[f].side = "dst" /\ fdtab[f].state = "connected"
    THEN [net EXCEPT !.dstPeer = "none"]
    ELSE net

\* lines 139-140: close(src); src = socket_connect(src_host, src_port), the call
MlCloseSrc ==
    /\ pc = "ml_close_src"
    /\ LET f == IF ReadFailSide = "src" THEN src ELSE dst IN
         /\ fdtab' = CloseFd(fdtab, f)
         /\ net' = NetAfterClose(f)
         /\ hist' = [hist EXCEPT !.badClose = @ \/ ~IsOpen(f), !.warnsCall = 0]
    /\ sc' = Call(IF ReadFailSide = "src" THEN "re_src" ELSE "re_dst")
    /\ pc' = ScEntry
    /\ UNCHANGED <<argv, status, sigpipe, send_to_syslog, opts, src, dst, buf,
                   rv, delivered, accepted, nfail, healthy>>


\* the bytes write(dst, buf, rv) is asked to send
WriteData == IF rv >= 0 /\ rv <= Len(buf) THEN Take(buf, rv) ELSE <<>>

\* lines 143-144: write(dst, buf, rv) and the test of its result.  The peer
\* takes k >= 1 of the bytes; a write on a connection the peer has closed
\* raises SIGPIPE and fails with EPIPE; -1 also on a bad call.
MlWrite ==
    /\ pc = "ml_write"
    /\ \/ /\ IsConnected(dst) /\ net.dstPeer = "up" /\ rv >= 0
          /\ \E k \in 1..Len(WriteData) :
               /\ accepted' = accepted \o Take(WriteData, k)
               /\ rv' = k
               /\ pc' = IF WriteFailed(k) THEN "ml_close_dst" ELSE "ml_read"
               /\ hist' = [hist EXCEPT !.writes = TRUE,
                              !.resumed = @ \/ (k > 0 /\ hist.chunkHealthy),
                              !.chunkWrites = Min(@ + 1, 2),
                              !.nwrites = Min(@ + 1, MaxStream + 1)]
          /\ UNCHANGED <<status, nfail>>
       \/ /\ IsConnected(dst) /\ net.dstPeer = "up" /\ rv >= 0
          /\ MayFail \/ WriteData = <<>>
          /\ \E r \in {-1, 0} :
               /\ WriteData = <<>> => r = 0
               /\ rv' = r
               /\ pc' = IF WriteFailed(r) THEN "ml_close_dst" ELSE "ml_read"
          /\ hist' = [hist EXCEPT !.writes = TRUE, !.dstFailed = TRUE,
                                  !.ioFailed = TRUE,
                                  !.chunkWrites = Min(@ + 1, 2)]
          /\ nfail' = IF WriteData = <<>> THEN nfail ELSE nfail + 1
          /\ UNCHANGED <<status, accepted>>
       \/ /\ IsConnected(dst) /\ net.dstPeer = "closed" /\ rv >= 0
          /\ IF sigpipe = "ignore"
             THEN /\ rv' = -1
                  /\ pc' = IF WriteFailed(-1) THEN "ml_close_dst" ELSE "ml_read"
                  /\ UNCHANGED status
             ELSE /\ pc' = "killed"
                  /\ status' = [how |-> "SIGPIPE", code |-> 0]
                  /\ UNCHANGED rv
          /\ hist' = [hist EXCEPT !.writes = TRUE, !.dstFailed = TRUE,
                                  !.ioFailed = TRUE, !.epipe = TRUE,
                                  !.chunkWrites = Min(@ + 1, 2)]
          /\ UNCHANGED <<accepted, nfail>>
       \/ /\ ~IsConnected(dst) \/ rv < 0
          /\ rv' = -1
          /\ pc' = IF WriteFailed(-1) THEN "ml_close_dst" ELSE "ml_read"
          /\ hist' = [hist EXCEPT !.writes = TRUE, !.dstFailed = TRUE,
                                  !.ioFailed = TRUE,
                                  !.chunkWrites = Min(@ + 1, 2)]
          /\ UNCHANGED <<status, accepted, nfail>>
    /\ UNCHANGED <<argv, sigpipe, send_to_syslog, opts, src, dst, buf, sc,
                   fdtab, net, delivered, healthy>>

\* lines 145-146: close(dst); dst = socket_connect(dst_host, dst_port), the call
MlCloseDst ==
    /\ pc = "ml_close_dst"
    /\ LET f == IF WriteFailSide = "dst" THEN dst ELSE src IN
         /\ fdtab' = CloseFd(fdtab, f)
         /\ net' = NetAfterClose(f)
         /\ hist' = [hist EXCEPT !.badClose = @ \/ ~IsOpen(f), !.warnsCall = 0]
    /\ sc' = Call(IF WriteFailSide = "dst" THEN "re_dst" ELSE "re_src")
    /\ pc' = ScEntry
    /\ UNCHANGED <<argv, status, sigpipe, send_to_syslog, opts, src, dst, buf,
                   rv, delivered, accepted, nfail, healthy>>

(***************************************************************************)
(* The environment: the two peers.                                         *)
(***************************************************************************)
\* the source peer sends the next byte of its stream on the live connection
Deliver ==
    /\ Running
    /\ net.srcPeer = "up"
    /\ Len(delivered) < MaxStream
    /\ LET b == Len(delivered) + 1 IN
         /\ delivered' = Append(delivered, b)
         /\ net' = [net EXCEPT !.srcQueue = Append(@, b)]
    /\ hist' = [hist EXCEPT !.interleaved = @ \/ hist.reads]
    /\ UNCHANGED <<argv, pc, status, sigpipe, send_to_syslog, opts, src, dst,
                   buf, rv, sc, fdtab, accepted, nfail, healthy>>

\* the source peer closes its end of the connection
PeerCloseSrc ==
    /\ Running
    /\ MayFail
    /\ net.srcPeer = "up"
    /\ net' = [net EXCEPT !.srcPeer = "closed"]
    /\ nfail' = nfail + 1
    /\ UNCHANGED <<argv, pc, status, sigpipe, send_to_syslog, opts, src, dst,
                   buf, rv, sc, fdtab, delivered, accepted, healthy, hist>>

\* the destination peer closes its end of the connection
PeerCloseDst ==
    /\ Running
    /\ MayFail
    /\ net.dstPeer = "up"
    /\ net' = [net EXCEPT !.dstPeer = "closed"]
    /\ nfail' = nfail + 1
    /\ UNCHANGED <<argv, pc, status, sigpipe, send_to_syslog, opts, src, dst,
                   buf, rv, sc, fdtab, delivered, accepted, healthy, hist>>

\* from now on both endpoints resolve and accept, and new failures stop
BecomeHealthy ==
    /\ Running
    /\ ~healthy
    /\ hist.established
    /\ Len(delivered) < MaxStream
    /\ healthy' = TRUE
    /\ UNCHANGED <<argv, pc, status, sigpipe, send_to_syslog, opts, src, dst,
                   buf, rv, sc, fdtab, net, delivered, accepted, nfail, hist>>

ProgNext ==
    \/ MSignal \/ MParse \/ MlInit1 \/ MlInit2
    \/ ScSocket \/ ScRcvTimeo \/ ScSndTimeo \/ ScResolve \/ ScConnect
    \/ MlRead \/ MlCloseSrc \/ MlWrite \/ MlCloseDst

EnvNext == Deliver \/ PeerCloseSrc \/ PeerCloseDst \/ BecomeHealthy

Next == ProgNext \/ EnvNext

Spec == Init /\ [][Next]_vars


\* the relay keeps running as long as the process lives; syscalls return
\* (timeouts, finite sleeps), and the source peer keeps sending
FairSpec == Spec /\ WF_vars(ProgNext) /\ WF_vars(Deliver)

ScPcs == {"sc_socket", "sc_rcvtimeo", "sc_sndtimeo", "sc_resolve", "sc_connect"}

(***************************************************************************)
(* C1.  While no read and no write has failed, every byte the source       *)
(* delivered is, each time the relay is back at its read, either accepted  *)
(* by the destination or still queued at the source connection: the        *)
(* accepted bytes followed by the queued ones are the delivered sequence,  *)
(* whatever count the reads and writes returned.                           *)
(***************************************************************************)
C1_StreamPreserved ==
    (pc = "ml_read" /\ ~hist.ioFailed) => accepted \o net.srcQueue = delivered

(***************************************************************************)
(* C2.  From a failed read until the next successful read, the relay only  *)
(* closes and reconnects the source: it is at the close of the source, in  *)
(* a socket_connect call for the source, or at the read; the destination   *)
(* descriptor stays the same open descriptor in the same state, and no     *)
(* byte is written.                                                        *)
(***************************************************************************)
C2_DstUntouched ==
    hist.srcFailed =>
        /\ IsOpen(dst)
        /\ dst' = dst
        /\ fdtab'[dst] = fdtab[dst]
        /\ accepted' = accepted

C2_OnlySource ==
    hist.srcFailed =>
        /\ pc \in ScPcs \cup {"ml_close_src", "ml_read", "exited"}
        /\ pc \in ScPcs => sc.side = "src"

C2_ReadFailureFrame == [](C2_OnlySource) /\ [][C2_DstUntouched]_vars

C2_Witness ==
    /\ hist.srcFailed /\ pc = "ml_read"
    /\ sc.site = "re_src" /\ sc.returned /\ src = sc.fd
    /\ IsConnected(dst)

(***************************************************************************)
(* C3.  From a failed write until the destination reconnect has completed, *)
(* the relay only closes and reconnects the destination: the source        *)
(* descriptor stays the same open descriptor in the same state and is not  *)
(* read from.                                                              *)
(***************************************************************************)
C3_SrcUntouched ==
    hist.dstFailed =>
        /\ IsOpen(src)
        /\ src' = src
        /\ fdtab'[src] = fdtab[src]
        /\ buf' = buf

C3_OnlyDestination ==
    hist.dstFailed =>
        /\ pc \in ScPcs \cup {"ml_close_dst", "exited"}
        /\ pc \in ScPcs => sc.side = "dst"

C3_WriteFailureFrame == [](C3_OnlyDestination) /\ [][C3_SrcUntouched]_vars

C3_Witness ==
    /\ ~hist.dstFailed /\ pc = "ml_read"
    /\ sc.site = "re_dst" /\ sc.returned /\ dst = sc.fd
    /\ IsConnected(src)


(***************************************************************************)
(* C4.  Once the environment injects no more failures, the relay reads a   *)
(* chunk from the source and writes it to the destination with a positive  *)
(* result, unless the source peer has nothing left to send (it has sent    *)
(* its whole stream and nothing of it is queued).                          *)
(***************************************************************************)
SourceDone == Len(delivered) = MaxStream /\ net.srcQueue = <<>>

C4_ForwardingResumes == healthy ~> (hist.resumed \/ SourceDone)

C4_Witness == healthy /\ hist.resumed /\ nfail > 0 /\ hist.ioFailed

(***************************************************************************)
(* C5.  As claimed: once both initial connections are established the      *)
(* process never terminates by itself.                                     *)
(***************************************************************************)
C5_NeverTerminates == hist.established => Running

(***************************************************************************)
(* C5, amended.  Once both initial connections are established the process *)
(* ends by itself only through a fatal exit of socket_connect during a     *)
(* reconnect (no address for the host, or a timeout that cannot be set),   *)
(* with status 1; no failed read, write, socket() or connect ends it.      *)
(***************************************************************************)
FatalExits == {"rcvtimeo", "sndtimeo", "dns_null", "dns_empty"}

C5_OnlyFatalExits ==
    (hist.established /\ ~Running) =>
        /\ pc = "exited"
        /\ status = [how |-> "exit", code |-> EXIT_FATAL]
        /\ hist.lastExit \in FatalExits
        /\ sc.site \in {"re_src", "re_dst"} /\ ~sc.returned

C5_Witness ==
    /\ hist.established /\ pc = "exited" /\ hist.lastExit = "dns_empty"
    /\ hist.writes

(***************************************************************************)
(* C6.  When socket_connect has returned, the caller holds a descriptor    *)
(* that is an open socket with both timeouts set and connected, and the    *)
(* call made exactly one connect attempt more than were refused.           *)
(***************************************************************************)
C6_ReturnsConnected ==
    sc.returned =>
        /\ sc.fd \in Fds
        /\ (IF sc.side = "src" THEN src ELSE dst) = sc.fd
        /\ fdtab[sc.fd].state = "connected"
        /\ fdtab[sc.fd].rcvtimeo /\ fdtab[sc.fd].sndtimeo
        /\ fdtab[sc.fd].side = sc.side
        /\ sc.attempts = sc.refused + 1

C6_Witness == sc.returned /\ sc.refused = 2 /\ sc.attempts = 3


(***************************************************************************)
(* C7.  As claimed: when a name resolution yields no IPv4 address the      *)
(* process ends with status 1 and no read from the source and no write to  *)
(* the destination was ever attempted.                                     *)
(***************************************************************************)
DnsExits == {"dns_null", "dns_empty"}

C7_NoRelayActivity ==
    hist.lastExit \in DnsExits =>
        /\ pc = "exited"
        /\ status = [how |-> "exit", code |-> EXIT_FATAL]
        /\ ~hist.reads /\ ~hist.writes

(***************************************************************************)
(* C7, amended.  When a name resolution yields no IPv4 address the process *)
(* ends with status 1; when this happens in one of the two initial         *)
(* socket_connect calls, no read from the source and no write to the       *)
(* destination was ever attempted.                                         *)
(***************************************************************************)
C7_NoActivityAtStartup ==
    hist.lastExit \in DnsExits =>
        /\ pc = "exited"
        /\ status = [how |-> "exit", code |-> EXIT_FATAL]
        /\ sc.site \in {"init1", "init2"} =>
             (~hist.reads /\ ~hist.writes /\ accepted = <<>>)

C7_Witness ==
    /\ hist.lastExit = "dns_empty" /\ sc.site = "init2" /\ pc = "exited"
    /\ IsConnected(dst)

(***************************************************************************)
(* C8.  Until both initial connections exist, no read and no write is      *)
(* made; whenever a socket for the source exists or a socket_connect call  *)
(* for the source runs, the destination is already connected, and every    *)
(* step of that call leaves the destination descriptor as it is.           *)
(***************************************************************************)
SrcAttempted ==
    \/ pc \in ScPcs /\ sc.side = "src"
    \/ \E f \in Fds : fdtab[f].side = "src"
    \/ src # NoFd

C8_DstFirst ==
    ~hist.established =>
        /\ ~hist.reads /\ ~hist.writes
        /\ pc \notin {"ml_read", "ml_write", "ml_close_src", "ml_close_dst"}
        /\ SrcAttempted => (IsConnected(dst) /\ fdtab[dst].side = "dst")

C8_DstKept ==
    (~hist.established /\ SrcAttempted) =>
        (dst' = dst /\ fdtab'[dst] = fdtab[dst])

C8_StartupOrder == [](C8_DstFirst) /\ [][C8_DstKept]_vars

C8_Witness ==
    /\ ~hist.established /\ pc = "sc_connect" /\ sc.site = "init2"
    /\ sc.refused >= 1 /\ IsConnected(dst) /\ src = NoFd

(***************************************************************************)
(* C9.  The relay is at its read only with a source descriptor that is an  *)
(* open, connected socket to the source, and at its write only with such a *)
(* descriptor to the destination; after a failed read the read is reached  *)
(* again only through a completed socket_connect call for the source, and  *)
(* after a failed write no read or write is reached before the destination *)
(* call has returned.                                                      *)
(***************************************************************************)
C9_LiveDescriptors ==
    /\ pc = "ml_read" =>
         /\ IsConnected(src) /\ fdtab[src].side = "src"
         /\ hist.srcFailed =>
              (sc.site = "re_src" /\ sc.returned /\ sc.fd = src)
    /\ pc = "ml_write" =>
         /\ IsConnected(dst) /\ fdtab[dst].side = "dst"
         /\ ~hist.dstFailed
    /\ pc = "ml_read" => ~hist.dstFailed

C9_Witness ==
    /\ pc = "ml_write" /\ hist.ioFailed /\ nfail = MaxFail
    /\ sc.site = "re_dst" /\ sc.returned /\ sc.fd = dst

(***************************************************************************)
(* C10.  SIGPIPE is ignored from before the first socket exists and before *)
(* any write; the process is never killed by it; a write on a destination  *)
(* the peer has closed fails, and the relay then closes the destination    *)
(* and calls socket_connect for it.                                        *)
(***************************************************************************)
C10_Ignored ==
    /\ (pc \notin {"m_signal"}) => sigpipe = "ignore"
    /\ ((\E f \in Fds : IsOpen(f)) \/ hist.writes) => sigpipe = "ignore"
    /\ status.how # "SIGPIPE"
    /\ hist.epipe => hist.ioFailed

C10_Handled ==
    /\ (pc = "ml_write" /\ IsConnected(dst) /\ net.dstPeer = "closed" /\ pc' # pc)
          => (pc' = "ml_close_dst" /\ rv' = -1 /\ accepted' = accepted)
    /\ (pc = "ml_close_dst" /\ pc' # pc)
          => (pc' = "sc_socket" /\ sc'.site = "re_dst" /\ ~IsOpen(dst)')

C10_BrokenPipe == [](C10_Ignored) /\ [][C10_Handled]_vars

C10_Witness ==
    /\ hist.epipe /\ Running /\ pc = "ml_read"
    /\ sc.site = "re_dst" /\ sc.returned /\ IsConnected(dst)


(***************************************************************************)
(* The argument specification: main() alone, from its first statement to   *)
(* its return or to the call of main_loop, for every argument vector of up *)
(* to MaxArgs arguments over Tokens.                                       *)
(***************************************************************************)
Tokens ==
    { <<"-", "h">>, <<"-", "v">>, <<"-", "l">>, <<"-", "x">>, <<"-">>,
      <<"-", "s">>, <<"-", "s", "7">>, <<"-", "d">>, <<"-", "d", "8">>,
      <<"a">>, <<"7">> }

RECURSIVE ArgLists(_)
ArgLists(n) ==
    IF n = 0 THEN {<<>>}
    ELSE LET shorter == ArgLists(n - 1) IN
         shorter \cup {Append(l, t) : l \in {x \in shorter : Len(x) = n - 1},
                                       t \in Tokens}

ArgvsAll == {<<Prog>> \o l : l \in ArgLists(MaxArgs)}

InitArgs ==
    /\ argv \in ArgvsAll
    /\ InitCommon

NextArgs == MSignal \/ MParse

SpecArgs == InitArgs /\ [][NextArgs]_vars

(***************************************************************************)
(* The command line as its reader sees it.  The argument after a bare -s   *)
(* or -d is that flag's value; every other argument is a flag when it      *)
(* starts with '-' and a host otherwise.                                   *)
(***************************************************************************)
IsDash(a) == Ch(a, 0) = "-"

BareFlag(a) == IsDash(a) /\ Ch(a, 1) \in {"s", "d"} /\ Ch(a, 2) = NUL

RECURSIVE IsValue(_, _)
IsValue(av, i) == i > 2 /\ BareFlag(av[i - 1]) /\ ~IsValue(av, i - 1)

ArgIdx(av) == 2..Len(av)

UnknownAt(av, i) ==
    ~IsValue(av, i) /\ IsDash(av[i]) /\ Ch(av[i], 1) \notin {"h", "v", "l", "s", "d"}

InfoAt(av, i) == ~IsValue(av, i) /\ IsDash(av[i]) /\ Ch(av[i], 1) \in {"h", "v"}

StopIdx(av) == {i \in ArgIdx(av) : UnknownAt(av, i) \/ InfoAt(av, i)}

FirstStop(av) == CHOOSE i \in StopIdx(av) : \A j \in StopIdx(av) : i <= j

HostIdx(av) == {i \in ArgIdx(av) : ~IsValue(av, i) /\ ~IsDash(av[i])}

\* the last argument is a bare -s or -d: its value is missing
Dangling(av) ==
    Len(av) >= 2 /\ BareFlag(av[Len(av)]) /\ ~IsValue(av, Len(av))

Parsed == pc \notin {"m_signal", "m_parse"}

UsageExit ==
    /\ pc = "exited"
    /\ status = [how |-> "exit", code |-> 2]
    /\ hist.usage /\ hist.errLines = 1 /\ hist.lastLog = "error"
    /\ \A f \in Fds : ~IsOpen(f)
    /\ sc = NoCall /\ src = NoFd /\ dst = NoFd

(***************************************************************************)
(* C11.  As claimed: every argument list that holds an unrecognized flag   *)
(* or fewer than two hosts ends in the usage text, one error line and exit *)
(* status 2 with no socket created; main never exits with status 1, and    *)
(* with status 0 only for -h or -v.                                        *)
(***************************************************************************)
HasUnknownFlag(av) ==
    \E i \in ArgIdx(av) :
        IsDash(av[i]) /\ Ch(av[i], 1) \notin {"h", "v", "l", "s", "d"}

LacksHost(av) == Cardinality({i \in ArgIdx(av) : ~IsDash(av[i])}) < 2

C11_EveryBadList ==
    Parsed =>
        /\ (HasUnknownFlag(argv) \/ LacksHost(argv)) => UsageExit
        /\ ~(status.how = "exit" /\ status.code = 1)
        /\ (status.how = "exit" /\ status.code = 0) =>
              \E i \in ArgIdx(argv) : IsDash(argv[i]) /\ Ch(argv[i], 1) \in {"h", "v"}

(***************************************************************************)
(* C11, amended.  Reading left to right and passing over the value of a    *)
(* bare -s or -d: when an unrecognized flag comes before any -h or -v, or  *)
(* when there is no -h, -v or unrecognized flag, the list does not end in  *)
(* a bare -s or -d and holds fewer than two hosts, the process prints the  *)
(* usage text and one error line and exits with status 2 with no socket    *)
(* created; main never exits with status 1, and with status 0 only when a  *)
(* -h or -v comes first.                                                   *)
(***************************************************************************)
UsageError(av) ==
    \/ StopIdx(av) # {} /\ UnknownAt(av, FirstStop(av))
    \/ StopIdx(av) = {} /\ ~Dangling(av) /\ Cardinality(HostIdx(av)) < 2

C11_UsageErrors ==
    Parsed =>
        /\ UsageError(argv) => UsageExit
        /\ ~(status.how = "exit" /\ status.code = 1)
        /\ (status.how = "exit" /\ status.code = 0) =>
              (StopIdx(argv) # {} /\ InfoAt(argv, FirstStop(argv)))

C11_Witness ==
    /\ UsageExit
    /\ Len(argv) = 5 /\ argv[2] = <<"-", "s">> /\ argv[3] = <<"-", "x">>
    /\ argv[4] = <<"a">> /\ argv[5] = <<"-">>

(***************************************************************************)
(* C12.  When main calls main_loop, the source port is the value of the    *)
(* last -s (the rest of that argument, or the next argument when the flag  *)
(* stands alone) and 30002 without -s, the destination port likewise with  *)
(* -d and 30001; this also when the flag is the last argument, which is    *)
(* processed like any other list.                                          *)
(***************************************************************************)
NumberOf(t) ==
    CASE t = <<"7">> -> 7
      [] t = <<"8">> -> 8
      [] OTHER -> 0

FlagIdx(av, c) ==
    {i \in ArgIdx(av) : ~IsValue(av, i) /\ IsDash(av[i]) /\ Ch(av[i], 1) = c}

LastFlag(av, c) == CHOOSE i \in FlagIdx(av, c) : \A j \in FlagIdx(av, c) : j <= i

PortGiven(av, c, default) ==
    IF FlagIdx(av, c) = {} THEN default
    ELSE LET i == LastFlag(av, c) IN
         IF Ch(av[i], 2) # NUL THEN NumberOf(SubSeq(av[i], 3, Len(av[i])))
         ELSE IF i < Len(av) THEN NumberOf(av[i + 1])
         ELSE default

C12_PortsFromArguments ==
    /\ status.how # "SIGSEGV"
    /\ pc = "ml_init1" =>
         /\ opts.src_port = PortGiven(argv, "s", 30002)
         /\ opts.dst_port = PortGiven(argv, "d", 30001)


(***************************************************************************)
(* C13.  When the relay is back at its read after a write with a positive  *)
(* result, that write took the whole chunk of the iteration: its result is *)
(* the chunk's length and the chunk is the end of the accepted bytes.      *)
(***************************************************************************)
EndsWith(s, t) ==
    Len(s) >= Len(t) /\ SubSeq(s, Len(s) - Len(t) + 1, Len(s)) = t

C13_WholeChunkWritten ==
    (pc = "ml_read" /\ rv > 0) => (rv = Len(buf) /\ EndsWith(accepted, buf))

(***************************************************************************)
(* C14.  A chunk is passed to at most one write call.  After a failed      *)
(* write nothing more is accepted by the destination until the reconnect   *)
(* has returned, and the return leads to the read, not to a second write   *)
(* of the chunk.                                                           *)
(***************************************************************************)
C14_AtMostOnce ==
    /\ hist.chunkWrites <= 1
    /\ pc = "ml_write" => hist.chunkWrites = 0

C14_Discarded ==
    /\ hist.dstFailed => accepted' = accepted
    /\ (pc = "sc_connect" /\ sc.site = "re_dst" /\ pc' \notin ScPcs)
          => (pc' = "ml_read" /\ buf' = buf)
    /\ (pc = "ml_write" /\ pc' # pc) => pc' \in {"ml_read", "ml_close_dst"}

C14_OneWritePerChunk == [](C14_AtMostOnce) /\ [][C14_Discarded]_vars

C14_Witness ==
    /\ pc = "ml_write" /\ sc.site = "re_dst" /\ sc.returned
    /\ buf = <<2>> /\ accepted = <<>> /\ delivered = <<1, 2>>

(***************************************************************************)
(* C15.  As claimed: the host is resolved before the socket of the call is *)
(* created, so a host without address ends the process before any socket  *)
(* of that call exists.                                                    *)
(***************************************************************************)
C15_ResolveFirst ==
    /\ (pc \in ScPcs /\ sc.sockets > 0) => sc.addr # "none"
    /\ hist.lastExit \in DnsExits => (sc.sockets = 0 /\ sc.fd = NoFd)

(***************************************************************************)
(* C15, amended.  Within one call the steps are: create the socket, set    *)
(* the read timeout, set the write timeout, resolve the host, connect.  A  *)
(* host without address ends the process after the socket of that call     *)
(* was created and configured and before any connect attempt.              *)
(***************************************************************************)
ScFd == fdtab[sc.fd]

C15_SocketFirst ==
    /\ pc = "sc_socket" =>
         (sc.sockets = 0 /\ sc.addr = "none" /\ sc.attempts = 0)
    /\ pc = "sc_rcvtimeo" =>
         /\ sc.sockets = 1 /\ ScFd.state = "created"
         /\ ~ScFd.rcvtimeo /\ ~ScFd.sndtimeo
         /\ sc.addr = "none" /\ sc.attempts = 0
    /\ pc = "sc_sndtimeo" =>
         /\ sc.sockets = 1 /\ ScFd.state = "created"
         /\ ScFd.rcvtimeo /\ ~ScFd.sndtimeo
         /\ sc.addr = "none" /\ sc.attempts = 0
    /\ pc = "sc_resolve" =>
         /\ sc.sockets = 1 /\ ScFd.state = "created"
         /\ ScFd.rcvtimeo /\ ScFd.sndtimeo
         /\ sc.addr = "none" /\ sc.attempts = 0
    /\ pc = "sc_connect" =>
         /\ sc.sockets = 1 /\ ScFd.state = "created"
         /\ ScFd.rcvtimeo /\ ScFd.sndtimeo
         /\ sc.addr # "none"
    /\ hist.lastExit \in DnsExits =>
         /\ sc.sockets = 1 /\ ScFd.state = "created"
         /\ ScFd.rcvtimeo /\ ScFd.sndtimeo
         /\ sc.attempts = 0

C15_Witness ==
    /\ hist.lastExit = "dns_null" /\ pc = "exited"
    /\ sc.sockets = 1 /\ IsOpen(sc.fd) /\ sc.site = "init1"

(***************************************************************************)
(* C16.  A call of socket_connect creates at most one socket, exactly one  *)
(* once it is past the creation, and every connect retry is made on that   *)
(* socket; the call has slept once and logged one warning for each failed  *)
(* socket() and each failed connect (one more warning when the host has    *)
(* several addresses).                                                     *)
(***************************************************************************)
C16_Counts ==
    /\ sc.sockets <= 1
    /\ (pc \in ScPcs \ {"sc_socket"} \/ sc.returned) => sc.sockets = 1
    /\ sc.sleeps = sc.sockFails + sc.refused
    /\ hist.warnsCall = sc.sleeps + (IF sc.addr = "a2" THEN 1 ELSE 0)
    /\ sc.attempts = sc.refused + (IF sc.returned THEN 1 ELSE 0)

C16_SameSocket ==
    (pc = "sc_connect" /\ pc' \in ScPcs) =>
        (pc' = "sc_connect" /\ sc'.fd = sc.fd /\ fdtab' = fdtab
         /\ (sc' # sc => (sc'.refused = sc.refused + 1
                          /\ hist'.warnsCall = hist.warnsCall + 1
                          /\ sc'.sleeps = sc.sleeps + 1)))

C16_OneSocketPerCall == [](C16_Counts) /\ [][C16_SameSocket]_vars

C16_Witness ==
    /\ sc.returned /\ sc.sockFails = 1 /\ sc.refused = 2
    /\ hist.warnsCall = 3 /\ sc.sockets = 1

(***************************************************************************)
(* C17.  When all bytes of the source were queued before the first read    *)
(* and no read or write failed, then once the queue is drained the         *)
(* destination has seen ceil(n / BUFFER_SIZE) writes whose bytes are the n *)
(* bytes delivered.                                                        *)
(***************************************************************************)
CeilDiv(n, d) == (n + d - 1) \div d

C17_BurstInChunks ==
    (/\ pc = "ml_read" /\ hist.reads /\ net.srcQueue = <<>>
     /\ ~hist.ioFailed /\ ~hist.interleaved)
    => /\ accepted = delivered
       /\ hist.nwrites = CeilDiv(Len(delivered), BUFFER_SIZE)

(***************************************************************************)
(* C18.  At most one error-level line is logged; once it is logged the     *)
(* process has exited with status 1 or 2, the line is its last log line    *)
(* and nothing happens any more; the steps of read and write log nothing.  *)
(***************************************************************************)
C18_ErrorIsLast ==
    /\ hist.errLines <= 1
    /\ hist.errLines = 1 =>
         /\ pc = "exited" /\ status.how = "exit" /\ status.code \in {1, 2}
         /\ hist.lastLog = "error"
    /\ (pc = "exited" /\ status.code # 0) => hist.errLines = 1

C18_Silent ==
    /\ hist.errLines >= 1 => UNCHANGED vars
    /\ pc \in {"ml_read", "ml_write"} =>
         /\ hist'.lastLog = hist.lastLog
         /\ hist'.errLines = hist.errLines
         /\ hist'.warnsCall = hist.warnsCall

C18_OneErrorLine == [](C18_ErrorIsLast) /\ [][C18_Silent]_vars

C18_Witness ==
    /\ hist.errLines = 1 /\ pc = "exited" /\ status.code = 1
    /\ hist.srcFailed /\ hist.epipe /\ hist.warnsCall = 0

(***************************************************************************)
(* C19.  At most two descriptors are open, at most one per side; no close  *)
(* is applied to a descriptor that is not open; when a reconnect is about  *)
(* to create its socket, the only open descriptor is the other side's.     *)
(***************************************************************************)
OpenFds == {f \in Fds : IsOpen(f)}

C19_NoLeak ==
    /\ Cardinality(OpenFds) <= 2
    /\ \A f, g \in OpenFds : fdtab[f].side = fdtab[g].side => f = g
    /\ ~hist.badClose
    /\ (pc = "sc_socket" /\ sc.site = "re_src") => OpenFds = {dst}
    /\ (pc = "sc_socket" /\ sc.site = "re_dst") => OpenFds = {src}

C19_Witness ==
    /\ pc = "ml_read" /\ nfail = MaxFail /\ hist.srcFailed /\ hist.epipe
    /\ Cardinality(OpenFds) = 2 /\ sc.site = "re_src" /\ sc.returned

(***************************************************************************)
(* C20.  Every call of socket_connect that has returned created its own    *)
(* socket, set both timeouts on it and resolved the host within the call;  *)
(* a timeout that cannot be set or a host without address ends the process *)
(* with status 1, also in a reconnect after bytes were forwarded.          *)
(***************************************************************************)
C20_FullReconnect ==
    /\ sc.returned =>
         /\ sc.sockets = 1 /\ sc.addr # "none"
         /\ ScFd.rcvtimeo /\ ScFd.sndtimeo
    /\ (pc \in ScPcs /\ sc.sockets = 0) => (sc.fd = NoFd /\ sc.addr = "none")
    /\ hist.lastExit \in FatalExits =>
         (pc = "exited" /\ status = [how |-> "exit", code |-> 1])

C20_Witness ==
    /\ hist.lastExit = "dns_null" /\ pc = "exited" /\ status.code = 1
    /\ sc.site = "re_src" /\ accepted # <<>> /\ sc.sockets = 1

====
